---- MODULE Spec2Model ----
(***************************************************************************)
(* Model of go-kit/metrics/provider/librato/batcher.go: the two batchers   *)
(* (oldBatcher.Batch, taggedBatcher.Batch), the histogram reduction        *)
(* (oldBatcher.histogramMeasures) and the statistics helpers               *)
(* (squareOfDistanceFromMean, stddev).                                     *)
(*                                                                         *)
(* Three specifications share the module:                                  *)
(*   Spec       successive flushes through one batcher and one URL object  *)
(*   SpecHist   observers and a reducer contending for one histogram       *)
(*   SpecStats  the statistics helpers applied to bounded sample multisets *)
(***************************************************************************)
EXTENDS Integers, Sequences, FiniteSets, TLC

VARIABLES
    \* ---- batcher state (Spec) ----
    URL,        \* the caller's *url.URL object, shared by every Batch call
    cfgURL,     \* the URL as configured, before any call (history variable)
    dialect,    \* which batcher the provider was built with: "old" | "tagged"
    batchSize,  \* b.p.batchSize
    ssa,        \* b.p.ssa
    window,     \* what b.p.sample will return at the next flush
    sampled,    \* what b.p.sample returned to the last Batch call
    result,     \* what the last Batch call returned, until the caller takes it
    flushes,    \* number of Batch calls that sampled at least one measurement
    \* ---- histogram state (SpecHist) ----
    h,          \* the Histogram accumulator: count, sum, min, max, sumsq, est
    mu,         \* h.mu: the process holding the lock, or Free
    opc,        \* each observer's position
    oval,       \* the value each observer is recording
    rpc,        \* the reducer's position inside histogramMeasures
    loc,        \* the reducer's locals: count, sum, min, max, sumsq, percs
    ret,        \* the gauges the last histogramMeasures call returned
    hist,       \* history of the reducer's calls and of the observations
    \* ---- statistics helpers (SpecStats) ----
    samples,    \* a non-empty multiset of integer samples (nondecreasing seq)
    stats       \* the helpers' results on it, once computed

batchVars == <<URL, cfgURL, dialect, batchSize, ssa, window, sampled, result, flushes>>
histVars  == <<h, mu, opc, oval, rpc, loc, ret, hist>>
statVars  == <<samples, stats>>
vars      == <<batchVars, histVars, statVars>>

\* ------------------------------------------------------------------------
\* Bounds
\* ------------------------------------------------------------------------
MaxLen == 4          \* longest sampled sequence
MaxBatch == 2        \* largest configured batch size
MaxFlushes == 2      \* non-empty flushes through the same URL object

\* ------------------------------------------------------------------------
\* float64 values: a finite number or NaN (json cannot encode NaN / Inf)
\* ------------------------------------------------------------------------
Num(v) == [nan |-> FALSE, v |-> v]
NaN == [nan |-> TRUE, v |-> 0]
IsFinite(x) == ~x.nan

\* ------------------------------------------------------------------------
\* Program constants
\* ------------------------------------------------------------------------
oldBatcherPath == "/v1/metrics"
tagBatcherPath == "/v1/measurements"

\* ------------------------------------------------------------------------
\* measurement and gauge
\* ------------------------------------------------------------------------
Mk(name, sumsq, last) ==
    [Name |-> name, Time |-> 60, Period |-> 60, Tags |-> {<<"host", "a">>},
     Sum |-> Num(3), SumSq |-> sumsq, Count |-> 2, Min |-> Num(1),
     Max |-> Num(2), Last |-> last, StdDev |-> Num(0)]

\* The measurements a window may hold: two ordinary ones, one whose
\* sum of squares is NaN and one whose last value is NaN.
Measurements ==
    { Mk("a", Num(5), Num(2)), Mk("b", Num(5), Num(2)),
      Mk("s", NaN, Num(2)),    Mk("l", Num(5), NaN) }

\* func (m *measurement) Gauge() gauge
Gauge(m) ==
    [Name |-> m.Name, Period |-> m.Period, Count |-> m.Count, Sum |-> m.Sum,
     Min |-> m.Min, Max |-> m.Max, SumSq |-> m.SumSq]

\* encoding/json on a gauge: every field is written, under its json tag
GaugeEncodable(g) ==
    IsFinite(g.Sum) /\ IsFinite(g.Min) /\ IsFinite(g.Max) /\ IsFinite(g.SumSq)

GaugeJSON(g) ==
    [name |-> g.Name, period |-> g.Period, count |-> g.Count, sum |-> g.Sum.v,
     min |-> g.Min.v, max |-> g.Max.v, sum_squares |-> g.SumSq.v]

\* encoding/json on a measurement: SumSq is tagged "-" and never written,
\* Attributes is omitted when empty
MeasurementEncodable(m) ==
    IsFinite(m.Sum) /\ IsFinite(m.Min) /\ IsFinite(m.Max) /\ IsFinite(m.Last)
    /\ IsFinite(m.StdDev)

MeasurementJSON(m) ==
    [name |-> m.Name, time |-> m.Time, period |-> m.Period, tags |-> m.Tags,
     sum |-> m.Sum.v, count |-> m.Count, min |-> m.Min.v, max |-> m.Max.v,
     last |-> m.Last.v, stddev |-> m.StdDev.v]

\* ------------------------------------------------------------------------
\* net/url as the batchers use it
\* ------------------------------------------------------------------------
NoUser == [set |-> FALSE, Username |-> "", Password |-> "", PasswordSet |-> FALSE]
UserPassword(n, p) == [set |-> TRUE, Username |-> n, Password |-> p, PasswordSet |-> TRUE]
User(n) == [set |-> TRUE, Username |-> n, Password |-> "", PasswordSet |-> FALSE]

\* (*URL).String(): scheme "://" [userinfo "@"] host path ["?" query]
URLString(u) ==
    <<u.Scheme, "://">>
    \o (IF u.User.set
        THEN <<u.User.Username>>
             \o (IF u.User.PasswordSet THEN <<":", u.User.Password>> ELSE <<>>)
             \o <<"@">>
        ELSE <<>>)
    \o <<u.Host, u.Path>>
    \o (IF u.RawQuery # "" THEN <<"?", u.RawQuery>> ELSE <<>>)

\* (*URL).ResolveReference(&url.URL{Path: path}) with an absolute path: the
\* result is a new URL with the base's scheme, user and host, the reference's
\* path, and no query.
ResolveReference(u, path) ==
    [Scheme |-> u.Scheme, User |-> u.User, Host |-> u.Host, Path |-> path,
     RawQuery |-> ""]

\* url.Parse, inside http.NewRequest, rejects a host with an invalid character
ValidHost(host) == host # "bad host"

\* ------------------------------------------------------------------------
\* The two Batch methods
\* ------------------------------------------------------------------------
NoErr == "nil"
NoAuth == [set |-> FALSE, Username |-> "", Password |-> ""]

\* gauges[batch:e]
Slice_dropLast(s, lo, hi) == SubSeq(s, lo + 1, hi - 1)

Slice(s, lo, hi) == SubSeq(s, lo + 1, hi)

\* nextEnd := func(e int) int, closed over len(gauges) and b.p.batchSize
nextEnd(e, l, size) == IF e + size > l THEN l ELSE e + size

\* user, u.User = u.User, nil: what is left in the caller's object
StripUser_keep(u) == u

StripUser(u) == [u EXCEPT !.User = NoUser]

\* if len(gauges) == 0 { return nil, nil }
NoData_err(u) == [requests |-> <<>>, err |-> "no data", u |-> u]

NoData_strips(u) == [requests |-> <<>>, err |-> NoErr, u |-> StripUser(u)]

NoData(u) == [requests |-> <<>>, err |-> NoErr, u |-> u]

\* if err := json.NewEncoder(&buf).Encode(r); err != nil { return nil, err }
EncodeFailed_partial(requests) == [requests |-> requests, err |-> "json"]

EncodeFailed(requests) == [requests |-> <<>>, err |-> "json"]

\* req, err := http.NewRequest(...); if err != nil { return nil, err }
NewRequestFailed(requests) == [requests |-> <<>>, err |-> "url"]

\* if user != nil { p, _ := user.Password(); req.SetBasicAuth(user.Username(), p) }
SetBasicAuth(user) ==
    IF user.set
    THEN [set |-> TRUE, Username |-> user.Username, Password |-> user.Password]
    ELSE NoAuth

\* http.NewRequest(http.MethodPost, u.String(), &buf), the Basic Auth and the
\* Content-Type header
BuildRequest(u, user, body) ==
    [Method |-> "POST", URL |-> URLString(u), Body |-> body,
     Auth |-> SetBasicAuth(user), ContentType |-> "application/json"]

\* b.p.source, written as "source" unless empty
source == "web.1"

\* The old batcher's envelope; Attributes is set only under b.p.ssa
OldEnvelope(st, chunk, agg) ==
    [source |-> source,
     measure_time |-> st,
     gauges |-> [i \in 1..Len(chunk) |-> GaugeJSON(chunk[i])],
     attributes |-> IF agg THEN {<<"aggregate", TRUE>>} ELSE {}]

TaggedEnvelope(chunk) ==
    [measurements |-> [i \in 1..Len(chunk) |-> MeasurementJSON(chunk[i])]]

\* for batch, e := 0, nextEnd(0); batch < len(gauges); batch, e = e, nextEnd(e)
RECURSIVE oldLoop(_, _, _, _, _, _, _, _, _)
oldLoop(gauges, batch, e, requests, u, user, st, size, agg) ==
    IF ~(batch < Len(gauges)) THEN [requests |-> requests, err |-> NoErr]
    ELSE LET chunk == Slice(gauges, batch, e) IN
         IF \E i \in 1..Len(chunk) : ~GaugeEncodable(chunk[i])
         THEN EncodeFailed(requests)
         ELSE IF ~ValidHost(u.Host) THEN NewRequestFailed(requests)
         ELSE oldLoop(gauges, e, nextEnd(e, Len(gauges), size),
                      Append(requests, BuildRequest(u, user, OldEnvelope(st, chunk, agg))),
                      u, user, st, size, agg)

\* func (b *oldBatcher) Batch(u *url.URL, interval time.Duration)
oldBatcher_Batch(u, measurements, st, size, agg) ==
    LET gauges == [i \in 1..Len(measurements) |-> Gauge(measurements[i])] IN
    IF Len(gauges) = 0 THEN NoData(u)
    ELSE LET user == u.User
             caller == StripUser(u)
             ru == ResolveReference(caller, oldBatcherPath)
             out == oldLoop(gauges, 0, nextEnd(0, Len(gauges), size), <<>>,
                            ru, user, st, size, agg)
         IN [requests |-> out.requests, err |-> out.err, u |-> caller]

RECURSIVE taggedLoop(_, _, _, _, _, _, _)
taggedLoop(measurements, batch, e, requests, u, user, size) ==
    IF ~(batch < Len(measurements)) THEN [requests |-> requests, err |-> NoErr]
    ELSE LET chunk == Slice(measurements, batch, e) IN
         IF \E i \in 1..Len(chunk) : ~MeasurementEncodable(chunk[i])
         THEN EncodeFailed(requests)
         ELSE IF ~ValidHost(u.Host) THEN NewRequestFailed(requests)
         ELSE taggedLoop(measurements, e, nextEnd(e, Len(measurements), size),
                         Append(requests, BuildRequest(u, user, TaggedEnvelope(chunk))),
                         u, user, size)

\* func (b *taggedBatcher) Batch(u *url.URL, interval time.Duration)
taggedBatcher_Batch(u, measurements, size) ==
    IF Len(measurements) = 0 THEN NoData(u)
    ELSE LET user == u.User
             caller == StripUser(u)
             ru == ResolveReference(caller, tagBatcherPath)
             out == taggedLoop(measurements, 0, nextEnd(0, Len(measurements), size),
                               <<>>, ru, user, size)
         IN [requests |-> out.requests, err |-> out.err, u |-> caller]

\* ------------------------------------------------------------------------
\* The histogram and oldBatcher.histogramMeasures
\* ------------------------------------------------------------------------
NumObservers == 2    \* concurrent observers
MaxObs == 3          \* observations recorded in a run
MaxReduce == 3       \* histogramMeasures calls in a run

Observers == 1..NumObservers
ObsValues == {1, 4}
Periods == {60}
Free == [by |-> "nobody", id |-> 0]
Reducer == [by |-> "reducer", id |-> 0]
Observer(o) == [by |-> "observer", id |-> o]

metricName == "latency"
percentilePrefix == ".p"

RECURSIVE SumSeq(_)
SumSeq(s) == IF s = <<>> THEN 0 ELSE Head(s) + SumSeq(Tail(s))

\* h.h.Quantile(q/100) of the window's estimator: the nearest-rank value
Quantile(est, q) ==
    LET n == Len(est)
        rank == (q * n + 99) \div 100
    IN CHOOSE v \in {est[i] : i \in 1..n} :
          /\ Cardinality({i \in 1..n : est[i] < v}) < rank
          /\ Cardinality({i \in 1..n : est[i] <= v}) >= rank

EmptyHistogram ==
    [count |-> 0, sum |-> 0, min |-> 0, max |-> 0, sumsq |-> 0, est |-> <<>>]

\* h.reset(): every scalar zeroed, the estimator cleared
reset(hh) == EmptyHistogram

\* Histogram.Observe(v), the part under the lock
observe(hh, v) ==
    [count |-> hh.count + 1,
     sum |-> hh.sum + v,
     min |-> IF hh.count = 0 \/ v < hh.min THEN v ELSE hh.min,
     max |-> IF hh.count = 0 \/ v > hh.max THEN v ELSE hh.max,
     sumsq |-> hh.sumsq + v * v,
     est |-> Append(hh.est, v)]

NoLocals ==
    [period |-> 0, count |-> 0, sum |-> 0, min |-> 0, max |-> 0, sumsq |-> 0,
     name |-> "", percs |-> <<>>]

\* History of a run, kept for the properties only:
\*   nobs      observations begun
\*   recCount, recSum   count and sum of the observations recorded so far
\*   repCount, repSum   count and sum over the aggregate gauges returned
\*   calls     histogramMeasures calls begun
\*   pre       the accumulator as the current call found it under the lock
\*   estSeen   the estimator's window when the current call took its quantiles
\*   path      how the last call went: "none" | "empty" | "full"
\*   quiet     no observation recorded since the last call that reset
\*   wasQuiet  quiet, as the current call found it under the lock
\*   emptied   calls that returned on the count = 0 path
NoHistory ==
    [nobs |-> 0, recCount |-> 0, recSum |-> 0, repCount |-> 0, repSum |-> 0,
     calls |-> 0, pre |-> EmptyHistogram, estSeen |-> <<>>, path |-> "none",
     quiet |-> FALSE, wasQuiet |-> FALSE, emptied |-> 0]

InitHist ==
    /\ h = EmptyHistogram
    /\ mu = Free
    /\ opc = [o \in Observers |-> "idle"]
    /\ oval = [o \in Observers |-> 0]
    /\ rpc = "idle"
    /\ loc = NoLocals
    /\ ret = <<>>
    /\ hist = NoHistory

\* ---- an observer: Observe(v) takes the lock, updates, releases ----
O_call(o, v) ==
    /\ opc[o] = "idle"
    /\ hist.nobs < MaxObs
    /\ opc' = [opc EXCEPT ![o] = "lock"]
    /\ oval' = [oval EXCEPT ![o] = v]
    /\ hist' = [hist EXCEPT !.nobs = @ + 1]
    /\ UNCHANGED <<h, mu, rpc, loc, ret>>
    /\ UNCHANGED <<batchVars, statVars>>

O_lock(o) ==
    /\ opc[o] = "lock"
    /\ mu = Free
    /\ mu' = Observer(o)
    /\ opc' = [opc EXCEPT ![o] = "update"]
    /\ UNCHANGED <<h, oval, rpc, loc, ret, hist>>
    /\ UNCHANGED <<batchVars, statVars>>

O_update(o) ==
    /\ opc[o] = "update"
    /\ h' = observe(h, oval[o])
    /\ opc' = [opc EXCEPT ![o] = "unlock"]
    /\ hist' = [hist EXCEPT !.recCount = @ + 1, !.recSum = @ + oval[o],
                            !.quiet = FALSE]
    /\ UNCHANGED <<mu, oval, rpc, loc, ret>>
    /\ UNCHANGED <<batchVars, statVars>>

O_unlock(o) ==
    /\ opc[o] = "unlock"
    /\ mu' = Free
    /\ opc' = [opc EXCEPT ![o] = "idle"]
    /\ UNCHANGED <<h, oval, rpc, loc, ret, hist>>
    /\ UNCHANGED <<batchVars, statVars>>

\* ---- the reducer: func (b *oldBatcher) histogramMeasures(h, period) ----
R_call(period) ==
    /\ rpc = "idle"
    /\ hist.calls < MaxReduce
    /\ rpc' = "lock"
    /\ loc' = [NoLocals EXCEPT !.period = period]
    /\ hist' = [hist EXCEPT !.calls = @ + 1]
    /\ UNCHANGED <<h, mu, opc, oval, ret>>
    /\ UNCHANGED <<batchVars, statVars>>

\* h.mu.Lock()
R_lock ==
    /\ rpc = "lock"
    /\ mu = Free
    /\ mu' = Reducer
    /\ rpc' = "check"
    /\ hist' = [hist EXCEPT !.pre = h, !.wasQuiet = hist.quiet]
    /\ UNCHANGED <<h, opc, oval, loc, ret>>
    /\ UNCHANGED <<batchVars, statVars>>

\* if h.count == 0 { h.mu.Unlock(); return nil }
R_check_noUnlock ==
    /\ rpc = "check"
    /\ IF h.count = 0
       THEN /\ mu' = mu
            /\ ret' = <<>>
            /\ rpc' = "idle"
            /\ hist' = [hist EXCEPT !.path = "empty", !.emptied = @ + 1]
       ELSE /\ rpc' = "snapshot"
            /\ UNCHANGED <<mu, ret, hist>>
    /\ UNCHANGED <<h, opc, oval, loc>>
    /\ UNCHANGED <<batchVars, statVars>>

R_check ==
    /\ rpc = "check"
    /\ IF h.count = 0
       THEN /\ mu' = Free
            /\ ret' = <<>>
            /\ rpc' = "idle"
            /\ hist' = [hist EXCEPT !.path = "empty", !.emptied = @ + 1]
       ELSE /\ rpc' = "snapshot"
            /\ UNCHANGED <<mu, ret, hist>>
    /\ UNCHANGED <<h, opc, oval, loc>>
    /\ UNCHANGED <<batchVars, statVars>>

\* count := h.count ... name := h.metricName()
R_snapshot_unlocks ==
    /\ rpc = "snapshot"
    /\ loc' = [loc EXCEPT !.count = h.count, !.sum = h.sum, !.min = h.min,
                          !.max = h.max, !.sumsq = h.sumsq, !.name = metricName]
    /\ mu' = Free
    /\ rpc' = "percs"
    /\ UNCHANGED <<h, opc, oval, ret, hist>>
    /\ UNCHANGED <<batchVars, statVars>>

R_snapshot ==
    /\ rpc = "snapshot"
    /\ loc' = [loc EXCEPT !.count = h.count, !.sum = h.sum, !.min = h.min,
                          !.max = h.max, !.sumsq = h.sumsq, !.name = metricName]
    /\ rpc' = "percs"
    /\ UNCHANGED <<h, mu, opc, oval, ret, hist>>
    /\ UNCHANGED <<batchVars, statVars>>

\* percs := {name + prefix + "99", Quantile(.99)}, {.. "95" ..}, {.. "50" ..}
Percs(name, est) ==
    << [n |-> name \o percentilePrefix \o "99", v |-> Quantile(est, 99)],
       [n |-> name \o percentilePrefix \o "95", v |-> Quantile(est, 95)],
       [n |-> name \o percentilePrefix \o "50", v |-> Quantile(est, 50)] >>

R_percs ==
    /\ rpc = "percs"
    /\ loc' = [loc EXCEPT !.percs = Percs(loc.name, h.est)]
    /\ hist' = [hist EXCEPT !.estSeen = h.est]
    /\ rpc' = "reset"
    /\ UNCHANGED <<h, mu, opc, oval, ret>>
    /\ UNCHANGED <<batchVars, statVars>>

\* h.reset()
R_reset_skipped ==
    /\ rpc = "reset"
    /\ h' = h
    /\ hist' = [hist EXCEPT !.quiet = TRUE]
    /\ rpc' = "unlock"
    /\ UNCHANGED <<mu, opc, oval, loc, ret>>
    /\ UNCHANGED <<batchVars, statVars>>

R_reset ==
    /\ rpc = "reset"
    /\ h' = reset(h)
    /\ hist' = [hist EXCEPT !.quiet = TRUE]
    /\ rpc' = "unlock"
    /\ UNCHANGED <<mu, opc, oval, loc, ret>>
    /\ UNCHANGED <<batchVars, statVars>>

\* h.mu.Unlock()
R_unlock ==
    /\ rpc = "unlock"
    /\ mu' = Free
    /\ rpc' = "build"
    /\ UNCHANGED <<h, opc, oval, loc, ret, hist>>
    /\ UNCHANGED <<batchVars, statVars>>

\* m := make([]gauge, 0, 4); the aggregate gauge, then one gauge per percentile
PointGauge(perc, period) ==
    [Name |-> perc.n, Period |-> period, Count |-> 1, Sum |-> perc.v,
     Min |-> perc.v, Max |-> perc.v, SumSq |-> perc.v * perc.v]

BuildGauges(l) ==
    << [Name |-> l.name, Period |-> l.period, Count |-> l.count, Sum |-> l.sum,
        Min |-> l.min, Max |-> l.max, SumSq |-> l.sumsq] >>
    \o [i \in 1..Len(l.percs) |-> PointGauge(l.percs[i], l.period)]

R_build ==
    /\ rpc = "build"
    /\ ret' = BuildGauges(loc)
    /\ rpc' = "idle"
    /\ hist' = [hist EXCEPT !.path = "full", !.repCount = @ + loc.count,
                            !.repSum = @ + loc.sum]
    /\ UNCHANGED <<h, mu, opc, oval, loc>>
    /\ UNCHANGED <<batchVars, statVars>>

NextHist ==
    \/ \E o \in Observers, v \in ObsValues : O_call(o, v)
    \/ \E o \in Observers : O_lock(o)
    \/ \E o \in Observers : O_update(o)
    \/ \E o \in Observers : O_unlock(o)
    \/ \E period \in Periods : R_call(period)
    \/ R_lock
    \/ R_check
    \/ R_snapshot
    \/ R_percs
    \/ R_reset
    \/ R_unlock
    \/ R_build

\* ------------------------------------------------------------------------
\* The statistics helpers
\* ------------------------------------------------------------------------
MaxSamples == 5      \* largest sample multiset
SampleLo == 1        \* samples range over -SampleLo .. SampleHi
SampleHi == 5

SampleValues == (0 - SampleLo)..SampleHi

\* float64 arithmetic on values that stay exact: a rational n/d in lowest
\* terms with d > 0
Abs(x) == IF x < 0 THEN 0 - x ELSE x

RECURSIVE GCD(_, _)
GCD(a, b) == IF b = 0 THEN a ELSE GCD(b, a % b)

Rat(n, d) ==
    LET g == GCD(Abs(n), Abs(d))
        sgn == IF d < 0 THEN 0 - 1 ELSE 1
    IN [n |-> sgn * (n \div g), d |-> sgn * (d \div g)]

Float(i) == [n |-> i, d |-> 1]
RSub(x, y) == Rat(x.n * y.d - y.n * x.d, x.d * y.d)
RDiv(x, y) == Rat(x.n * y.d, x.d * y.n)

\* math.Pow(x, 2)
Pow2(x) == Rat(x.n * x.n, x.d * x.d)

\* The integer square root of a perfect square, or -1
ISqrt(k) ==
    IF \E r \in 0..k : r * r = k THEN CHOOSE r \in 0..k : r * r = k ELSE 0 - 1

\* math.Sqrt(x): NaN below zero; otherwise the root, kept as a rational when
\* x is the square of one and as "the root of x" when it is not
Sqrt(x) ==
    IF x.n < 0 THEN [kind |-> "nan", n |-> 0, d |-> 1]
    ELSE IF ISqrt(x.n) >= 0 /\ ISqrt(x.d) >= 0
         THEN [kind |-> "rat", n |-> ISqrt(x.n), d |-> ISqrt(x.d)]
         ELSE [kind |-> "root", n |-> x.n, d |-> x.d]

\* func squareOfDistanceFromMean(sum, sumSquares, n float64) float64
squareOfDistanceFromMean_noDivide(sum, sumSquares, n) ==
    RSub(sumSquares, Pow2(sum))

squareOfDistanceFromMean(sum, sumSquares, n) ==
    RSub(sumSquares, RDiv(Pow2(sum), n))

\* func stddev(sum, sumSquares float64, count int64) float64
stddev(sum, sumSquares, count) ==
    Sqrt(RDiv(squareOfDistanceFromMean(sum, sumSquares, Float(count)), Float(count)))

\* The nondecreasing sequences of exactly k sample values: the multisets
RECURSIVE Multisets(_)
Multisets(k) ==
    IF k = 0 THEN {<<>>}
    ELSE UNION { {Append(s, v) : v \in {w \in SampleValues : k = 1 \/ s[k - 1] <= w}} :
                 s \in Multisets(k - 1) }

RECURSIVE SumSquares(_)
SumSquares(s) == IF s = <<>> THEN 0 ELSE Head(s) * Head(s) + SumSquares(Tail(s))

NoStats == [done |-> FALSE, sqd |-> Float(0), sd |-> Sqrt(Float(0))]

InitStats ==
    /\ samples \in UNION {Multisets(k) : k \in 1..MaxSamples}
    /\ stats = NoStats

\* The helpers applied to the running sums of the samples
Compute ==
    /\ ~stats.done
    /\ LET sum == Float(SumSeq(samples))
           sumSquares == Float(SumSquares(samples))
           count == Len(samples)
       IN stats' = [done |-> TRUE,
                    sqd |-> squareOfDistanceFromMean(sum, sumSquares, Float(count)),
                    sd |-> stddev(sum, sumSquares, count)]
    /\ UNCHANGED samples
    /\ UNCHANGED <<batchVars, histVars>>

NextStats == Compute

\* ------------------------------------------------------------------------
\* Spec: flushes through one batcher
\* ------------------------------------------------------------------------
Users == {NoUser, UserPassword("token", "secret"), User("token")}
Hosts == {"metrics.example", "bad host"}
SampleTimes == {60, 120}

NoResult == [called |-> FALSE, requests |-> <<>>, err |-> NoErr]

StatsIdle ==
    /\ samples = <<>>
    /\ stats = NoStats

InitBatch ==
    /\ \E usr \in Users, host \in Hosts :
          URL = [Scheme |-> "https", User |-> usr, Host |-> host,
                 Path |-> "/base", RawQuery |-> "k=v"]
    /\ cfgURL = URL
    /\ dialect \in {"old", "tagged"}
    /\ batchSize \in 1..MaxBatch
    /\ ssa \in BOOLEAN
    /\ window = <<>>
    /\ sampled = <<>>
    /\ result = NoResult
    /\ flushes = 0

\* The batcher part at rest, for the specifications that do not exercise it.
BatchIdle ==
    /\ URL = [Scheme |-> "https", User |-> NoUser, Host |-> "metrics.example",
              Path |-> "/base", RawQuery |-> "k=v"]
    /\ cfgURL = URL
    /\ dialect = "old"
    /\ batchSize = 1
    /\ ssa = FALSE
    /\ window = <<>>
    /\ sampled = <<>>
    /\ result = NoResult
    /\ flushes = 0

Init == InitBatch /\ InitHist /\ StatsIdle

\* A metric gets data in the current window: b.p.sample will report it.
Record(m) ==
    /\ ~result.called
    /\ Len(window) < MaxLen
    /\ window' = Append(window, m)
    /\ UNCHANGED <<URL, cfgURL, dialect, batchSize, ssa, sampled, result, flushes>>
    /\ UNCHANGED <<histVars, statVars>>

\* One flush: the provider's batcher is called with the shared URL object.
Batch(st) ==
    /\ ~result.called
    /\ Len(window) = 0 \/ flushes < MaxFlushes
    /\ LET out == IF dialect = "old"
                  THEN oldBatcher_Batch(URL, window, st, batchSize, ssa)
                  ELSE taggedBatcher_Batch(URL, window, batchSize)
       IN /\ result' = [called |-> TRUE, requests |-> out.requests, err |-> out.err]
          /\ URL' = out.u
    /\ sampled' = window
    /\ window' = <<>>
    /\ flushes' = IF Len(window) = 0 THEN flushes ELSE flushes + 1
    /\ UNCHANGED <<cfgURL, dialect, batchSize, ssa>>
    /\ UNCHANGED <<histVars, statVars>>

\* The caller takes the returned requests away for transmission.
Deliver ==
    /\ result.called
    /\ result' = NoResult
    /\ sampled' = <<>>
    /\ UNCHANGED <<URL, cfgURL, dialect, batchSize, ssa, window, flushes>>
    /\ UNCHANGED <<histVars, statVars>>

Next ==
    \/ \E m \in Measurements : Record(m)
    \/ \E st \in SampleTimes : Batch(st)
    \/ Deliver

Spec == Init /\ [][Next]_vars

InitH == BatchIdle /\ InitHist /\ StatsIdle

InitS == BatchIdle /\ InitHist /\ InitStats

SpecStats == InitS /\ [][NextStats]_vars

SpecHist == InitH /\ [][NextHist]_vars

\* ------------------------------------------------------------------------
\* Properties of the batchers (checked under Spec)
\* ------------------------------------------------------------------------
\* The items one request carries, read back from its JSON body
Items(req) == IF dialect = "old" THEN req.Body.gauges ELSE req.Body.measurements

\* The sampled sequence as the dialect writes it, item by item
RefItems ==
    IF dialect = "old"
    THEN [i \in 1..Len(sampled) |-> GaugeJSON(Gauge(sampled[i]))]
    ELSE [i \in 1..Len(sampled) |-> MeasurementJSON(sampled[i])]

Succeeded == result.called /\ result.err = NoErr

\* The returned requests are the reference chunking of the sampled sequence:
\* ceil(L/B) requests, every chunk but the last of exactly B items, the last
\* of 1..B items, item j of chunk i being item (i-1)*B + j of the sample.
Chunked ==
    LET L == Len(sampled)
        B == batchSize
        n == Len(result.requests)
    IN /\ n = (L + B - 1) \div B
       /\ \A i \in 1..n :
            LET items == Items(result.requests[i]) IN
            /\ Len(items) = IF i < n THEN B ELSE L - (n - 1) * B
            /\ Len(items) >= 1
            /\ Len(items) <= B
            /\ \A j \in 1..Len(items) : items[j] = RefItems[(i - 1) * B + j]

\* C1 (as stated): for every sampled sequence and every batch size the
\* returned requests are the reference chunking of the input, so there are
\* ceil(L/B) of them whatever was sampled.
C1_EveryCallChunked == result.called => Chunked

\* C1 (amended): a Batch call that returns no error returns ceil(L/B)
\* requests; every chunk but the last holds exactly B items, the last holds
\* between 1 and B, and the chunks concatenated in output order are the
\* input, nothing dropped, duplicated or reordered.
C1_ReferenceChunking == Succeeded => Chunked

\* Three items sampled under batch size two: a full chunk and a shorter last one
C1_Witness ==
    /\ Succeeded
    /\ Len(sampled) = 3
    /\ batchSize = 2
    /\ Len(result.requests) = 2
    /\ sampled[1] # sampled[2]

\* C2: when the configured URL carries user-info, every request of every
\* Batch call carries Basic Auth with that username and password, in the
\* first call and in every later call through the same URL object.
C2_BasicAuthOnEveryCall ==
    (result.called /\ cfgURL.User.set) =>
        \A i \in 1..Len(result.requests) :
            result.requests[i].Auth =
                [set |-> TRUE, Username |-> cfgURL.User.Username,
                 Password |-> cfgURL.User.Password]

\* The fixed endpoint path of the provider's dialect
DialectPath == IF dialect = "old" THEN oldBatcherPath ELSE tagBatcherPath

\* C3: the URL of every returned request is the configured URL's scheme and
\* host followed by the dialect's fixed path, with no user-info in it, after
\* any number of calls and whether or not the configured URL carried user-info.
C3_NoUserInfoInRequestURL ==
    result.called =>
        \A i \in 1..Len(result.requests) :
            /\ result.requests[i].URL = <<cfgURL.Scheme, "://", cfgURL.Host, DialectPath>>
            /\ \A k \in 1..Len(result.requests[i].URL) :
                  result.requests[i].URL[k] \notin {"@", cfgURL.User.Username, cfgURL.User.Password}

\* Requests returned by the second flush through a URL configured with user-info
C3_Witness ==
    /\ result.called
    /\ cfgURL.User.PasswordSet
    /\ flushes = 2
    /\ Len(result.requests) = 2

\* C7: a Batch call that returns an error returns no request with it, also
\* when the failing chunk comes after chunks that were built.
C7_NoPartialSuccess ==
    (result.called /\ result.err # NoErr) => result.requests = <<>>

\* The second chunk fails to encode after the first was built
C7_Witness ==
    /\ result.called
    /\ result.err = "json"
    /\ batchSize = 1
    /\ Len(sampled) = 3
    /\ sampled[1].Name = "a"
    /\ sampled[2].Name \in {"s", "l"}

\* C8: a Batch call whose sample is empty returns zero requests and no error.
C8_EmptySampleNoError ==
    (result.called /\ Len(sampled) = 0) =>
        (result.requests = <<>> /\ result.err = NoErr)

\* An empty flush through a URL no request could be built for
C8_Witness ==
    /\ result.called
    /\ Len(sampled) = 0
    /\ ~ValidHost(URL.Host)
    /\ batchSize = MaxBatch

\* C10: a Batch call that samples at least one measurement leaves the
\* caller's URL object as it was except for User, which is nil afterwards; a
\* call that samples none leaves the object unchanged.
C10_CallerURLEffect ==
    [][(~result.called /\ result'.called) =>
          IF Len(sampled') = 0
          THEN URL' = URL
          ELSE URL' = [URL EXCEPT !.User = NoUser]]_vars

\* A non-empty flush has cleared the user-info of the caller's object and
\* kept its path and query
C10_Witness ==
    /\ result.called
    /\ Len(sampled) > 0
    /\ cfgURL.User.set
    /\ ~URL.User.set
    /\ URL.Path = "/base"
    /\ URL.RawQuery = "k=v"

\* ------------------------------------------------------------------------
\* Properties of the histogram reduction (checked under SpecHist)
\* ------------------------------------------------------------------------
\* The snapshot of a reduction that has reset the accumulator and not yet
\* returned its gauges
InFlight == IF rpc \in {"unlock", "build"} THEN loc ELSE NoLocals

Returned(path) == rpc = "idle" /\ hist.path = path

\* C4: in every interleaving each recorded observation is in exactly one place:
\* the accumulator, or the aggregate gauge of one reduction (returned, or
\* snapshotted and about to be returned). Counts and sums add up, and the
\* scalars a reduction returns describe the very window its quantiles were
\* taken from.
C4_EveryObservationReportedOnce ==
    /\ hist.recCount = hist.repCount + InFlight.count + h.count
    /\ hist.recSum = hist.repSum + InFlight.sum + h.sum
    /\ mu = Free => (h.count = Len(h.est) /\ h.sum = SumSeq(h.est))
    /\ Returned("full") =>
          /\ ret[1].Count = Len(hist.estSeen)
          /\ ret[1].Sum = SumSeq(hist.estSeen)
          /\ ret[1].SumSq = SumSquares(hist.estSeen)
          /\ ret[2].Sum = Quantile(hist.estSeen, 99)
          /\ ret[4].Sum = Quantile(hist.estSeen, 50)

\* During a second reduction, after its reset and before its unlock, an
\* observer is waiting for the lock
C4_Witness ==
    /\ rpc = "unlock"
    /\ hist.repCount > 0
    /\ loc.count > 0
    /\ \E o \in Observers : opc[o] = "lock"

\* C5: a reduction that finds count > 0 returns exactly four gauges: the
\* aggregate gauge with the count, sum, min, max and sum of squares the
\* accumulator held before the reset, then the p99, p95 and p50 point gauges
\* in that order; it leaves the accumulator reset, and a call that follows
\* with no observation recorded in between returns no gauge.
C5_FourGaugesThenNone ==
    /\ Returned("full") =>
          /\ Len(ret) = 4
          /\ ret[1] = [Name |-> metricName, Period |-> loc.period,
                       Count |-> hist.pre.count, Sum |-> hist.pre.sum,
                       Min |-> hist.pre.min, Max |-> hist.pre.max,
                       SumSq |-> hist.pre.sumsq]
          /\ hist.pre.count > 0
          /\ <<ret[2].Name, ret[3].Name, ret[4].Name>> =
                <<"latency.p99", "latency.p95", "latency.p50">>
          /\ \A i \in 2..4 :
                LET v == Quantile(hist.pre.est, CASE i = 2 -> 99 [] i = 3 -> 95 [] OTHER -> 50)
                IN ret[i] = [Name |-> ret[i].Name, Period |-> loc.period, Count |-> 1,
                             Sum |-> v, Min |-> v, Max |-> v, SumSq |-> v * v]
    /\ hist.quiet => h = EmptyHistogram
    /\ (rpc = "idle" /\ hist.wasQuiet) => (hist.path = "empty" /\ ret = <<>>)

\* A reduction returned the gauges of two observations, and the call right
\* after it, with nothing recorded in between, returned none
C5_Witness ==
    /\ rpc = "idle"
    /\ hist.wasQuiet
    /\ hist.path = "empty"
    /\ hist.repCount = 2
    /\ hist.calls = 2
    /\ ret = <<>>

\* C6: a reduction that finds count = 0 returns no gauge, leaves every field
\* of the accumulator as it was and releases the lock as it returns.
C6_EmptyReductionLeavesAccumulator ==
    [][(rpc = "check" /\ h.count = 0 /\ rpc' # rpc) =>
          (h' = h /\ mu' = Free /\ ret' = <<>> /\ rpc' = "idle")]_vars

\* After a reduction returned on the count = 0 path, an observer holds the
\* lock and a later reduction has returned gauges
C6_Witness ==
    /\ hist.emptied > 0
    /\ hist.repCount > 0
    /\ \E o \in Observers : mu = Observer(o)

\* ------------------------------------------------------------------------
\* Properties of the statistics helpers (checked under SpecStats)
\* ------------------------------------------------------------------------
\* n * n times the sum over the samples of (x - mean)^2, in integers
RECURSIVE ScaledDeviation(_, _, _)
ScaledDeviation(s, n, sum) ==
    IF s = <<>> THEN 0
    ELSE (n * Head(s) - sum) * (n * Head(s) - sum) + ScaledDeviation(Tail(s), n, sum)

====
